---- MODULE Spec2Model ----
(***************************************************************************)
(* Model of hasyamo/note-stats-tracker:                                    *)
(*   scripts/fetch_likes.py  - the like collector (pagination, dedup,      *)
(*                             baseline / incremental selection, append)   *)
(*   scripts/fetch_stats.py  - the daily snapshot run (upsert by date)     *)
(*                                                                         *)
(* Conventions.  A liker id is a natural number standing for the string    *)
(* str(user["id"]).  A date is a natural number standing for the ISO       *)
(* string "%Y-%m-%d" of that day (fixed width, so the string order used by *)
(* sorted() is the order of the numbers).  A CSV file is a record          *)
(* [exists, header, rows]: header is the first row of the file (NoHeader   *)
(* for a file of zero rows), rows are the rows after it.                   *)
(***************************************************************************)
EXTENDS Integers, Sequences, FiniteSets, TLC

VARIABLES
    \* ---- fetch_all_likes_for_article (one call) ----
    ep,               \* the remote likes endpoint the call runs against
    col,              \* the locals of the call and what it has done so far
    twin,             \* a second call fed the same pages with other is_last_page flags
    \* ---- like-collector run (fetch_likes.main) ----
    likes_csv,        \* data/likes.csv
    articles_csv,     \* data/articles.csv
    run,              \* the locals of the current run of fetch_likes.main
    likes_at_start,   \* likes.csv as it was when the current run started
    nruns,            \* like-collector runs started so far
    det,              \* the change detector applied to articles.csv
    \* ---- daily snapshot run (fetch_stats.main) ----
    summary_csv,      \* data/daily_summary.csv
    stats,            \* the latest run of fetch_stats.main: its date, articles, exit
    last_articles,    \* date -> the rows the latest save_articles_csv call wrote for it
    last_summary,     \* date -> the row the latest save_daily_summary_csv call wrote for it
    \* ---- fetch_stats.py step by step ----
    cache,            \* data/v3_dates_cache.json: article key -> entry
    fnd,              \* the locals of a call of fetch_note_dates
    wr                \* the two save calls of a daily run, rewriting the files row by row

vars == <<ep, col, twin, likes_csv, articles_csv, run, likes_at_start, nruns, det,
          summary_csv, stats, last_articles, last_summary, cache, fnd, wr>>

collectVars == <<ep, col, twin>>
likesVars   == <<likes_csv, run, likes_at_start, nruns, det>>
statsVars   == <<summary_csv, stats, last_articles, last_summary>>
stepVars    == <<cache, fnd, wr>>

(***************************************************************************)
(* Bounds of the model.                                                    *)
(***************************************************************************)
MaxUser    == 2    \* liker ids 1..MaxUser served by the arbitrary endpoint
MaxPageLen == 2    \* records per page served by the arbitrary endpoint
MaxRec     == 101  \* records held by the paged endpoint (three pages of 50)
MaxSkew    == 2    \* how far the paged endpoint's like_count may exceed its records

Keys == {"a", "b"}

(***************************************************************************)
(* Generic helpers.                                                        *)
(***************************************************************************)
Range(s) == {s[i] : i \in 1..Len(s)}

Min(a, b) == IF a <= b THEN a ELSE b

SeqsUpTo(S, n) == UNION {[1..k -> S] : k \in 0..n}

\* the sequence <<lo, lo+1, ..., hi>> (empty when hi < lo)
Interval(lo, hi) == [i \in 1..(IF hi >= lo THEN hi - lo + 1 ELSE 0) |-> lo + i - 1]

(***************************************************************************)
(* fetch_likes.py: constants and the remote likes endpoint.                *)
(***************************************************************************)
LIKES_API_SIZE == 50

\* total_count = None (fetch_likes.py line 63), also what a JSON null decodes to
NoneTotal == -1
\* extra_fields.like_count missing from the response
NoLikeCount == -2

\* what fetch_likes_api returns for one request:
\*   kind "fail"  - HTTPError / URLError, fetch_likes_api returns None
\*   kind "raise" - any other exception of urlopen / read / json.loads,
\*                  which fetch_likes_api does not catch
\*   kind "page"  - a decoded response
FailResp  == [kind |-> "fail",  likes |-> <<>>, like_count |-> NoLikeCount, is_last_page |-> "absent"]
RaiseResp == [kind |-> "raise", likes |-> <<>>, like_count |-> NoLikeCount, is_last_page |-> "absent"]
Page(likes, n, flag) == [kind |-> "page", likes |-> likes, like_count |-> n, is_last_page |-> flag]

LastPageFlags == {"true", "false", "absent"}

\* the arbitrary endpoint: any short page over the liker ids, any reported
\* total, is_last_page among flags
AnyPages(flags) ==
    {Page(l, n, f) : l \in SeqsUpTo(1..MaxUser, MaxPageLen),
                     n \in {NoLikeCount, NoneTotal} \cup 0..(MaxUser + 1),
                     f \in flags}
AnyResponses(flags) == {FailResp, RaiseResp} \cup AnyPages(flags)

\* the paged endpoint: nrec records 1..nrec served LIKES_API_SIZE at a time,
\* is_last_page always false; past the true end it serves `after`:
\*   "empty" - an empty page, "repeat" - the last real page again,
\*   "first" - the first page again
PagedEndpoints ==
    {[kind |-> "paged", nrec |-> n, like_count |-> n + d, after |-> a, flag |-> "false"] :
        n \in 0..MaxRec, d \in 0..MaxSkew, a \in {"empty", "repeat", "first"}}

LastPageStart(n) == IF n = 0 THEN 0 ELSE ((n - 1) \div LIKES_API_SIZE) * LIKES_API_SIZE

PagedLikes(e, start) ==
    IF start < e.nrec THEN Interval(start + 1, Min(start + LIKES_API_SIZE, e.nrec))
    ELSE IF e.after = "empty" THEN <<>>
    ELSE IF e.after = "repeat" THEN Interval(LastPageStart(e.nrec) + 1, e.nrec)
    ELSE Interval(1, Min(LIKES_API_SIZE, e.nrec))

\* the arbitrary endpoint whose pages carry is_last_page = flag
AnyEndpoint(flag) ==
    [kind |-> "any", nrec |-> 0, like_count |-> 0, after |-> "empty", flag |-> flag]

Responses(e, start) ==
    IF e.kind = "paged" THEN {Page(PagedLikes(e, start), e.like_count, e.flag)}
    ELSE AnyResponses({e.flag})

Endpoints == PagedEndpoints \cup {AnyEndpoint(f) : f \in LastPageFlags}

(***************************************************************************)
(* fetch_all_likes_for_article.                                            *)
(***************************************************************************)
\* lines 60-63: the locals before the loop; requests lists the start offsets
\* of the page requests issued, flag the is_last_page field of the first
\* response received, reported the like_count field of the first response
\* when it is a page (NoneTotal until then), last the kind of the latest
\* response ("empty" for a page without likes), observed the liker ids of
\* all the records received, in arrival order, warned is the truncation
\* warning of line 104
ColInit ==
    [all_likes |-> <<>>, seen_ids |-> {}, start |-> 0, total_count |-> NoneTotal,
     new_in_page |-> 0, pc |-> "loop", requests |-> <<>>, flag |-> "none", last |-> "none",
     reported |-> NoneTotal, observed |-> <<>>, warned |-> FALSE]

\* line 74: data.get("extra_fields", {}).get("like_count", 0)
LikeCountOf(resp) == IF resp.like_count = NoLikeCount THEN 0 ELSE resp.like_count

\* a filter that takes no id for seen
SeenNever(user_id, seen_ids) == FALSE

\* line 83: user_id in seen_ids
Seen(user_id, seen_ids) == user_id \in seen_ids

RECURSIVE AddLikes(_, _)
\* lines 79-94: the records of one page go through the seen_ids filter
AddLikes(c, likes) ==
    IF likes = <<>> THEN c
    ELSE LET user_id == Head(likes) IN
         IF Seen(user_id, c.seen_ids) THEN AddLikes(c, Tail(likes))
         ELSE AddLikes([c EXCEPT !.seen_ids = @ \cup {user_id},
                                 !.new_in_page = @ + 1,
                                 !.all_likes = Append(@, user_id)],
                       Tail(likes))

\* a loop that ends on the count alone
LoopEndsOnCount(n_all, total_count, new_in_page) == n_all >= total_count

\* a loop that ends only when both conditions hold
LoopEndsConjunctive(n_all, total_count, new_in_page) ==
    n_all >= total_count /\ new_in_page = 0

\* line 97: the loop ends after this page
LoopEnds(n_all, total_count, new_in_page) ==
    n_all >= total_count \/ new_in_page = 0

\* a loop that never advances the offset
NextStartStuck(start) == start

\* line 100
NextStart(start) == start + LIKES_API_SIZE

\* lines 66-101: one iteration of the while loop on the response resp
LoopBody(c, resp) ==
    IF resp.kind = "fail" THEN [c EXCEPT !.pc = "exit"]
    ELSE IF resp.kind = "raise" THEN [c EXCEPT !.pc = "raised"]
    ELSE
      LET total == IF c.total_count = NoneTotal THEN LikeCountOf(resp) ELSE c.total_count
          c1    == [c EXCEPT !.total_count = total]
      IN  IF resp.likes = <<>> THEN [c1 EXCEPT !.pc = "exit"]
          ELSE
            LET c2 == AddLikes([c1 EXCEPT !.new_in_page = 0], resp.likes) IN
            \* len(all_likes) >= None raises TypeError
            IF total = NoneTotal THEN [c2 EXCEPT !.pc = "raised"]
            ELSE IF LoopEnds(Len(c2.all_likes), total, c2.new_in_page)
                 THEN [c2 EXCEPT !.pc = "exit"]
                 ELSE [c2 EXCEPT !.start = NextStart(@)]

\* the request at offset c.start is issued and its response received
Received(c, resp) ==
    [c EXCEPT !.requests = Append(@, c.start),
              !.flag = IF c.requests = <<>> THEN resp.is_last_page ELSE @,
              !.observed = @ \o resp.likes,
              !.reported = IF c.requests = <<>> /\ resp.kind = "page" THEN resp.like_count ELSE @,
              !.last = IF resp.kind = "page" /\ resp.likes = <<>> THEN "empty" ELSE resp.kind]

\* a loop that also stops when the response says is_last_page = true
PageStepTrustingFlag(c, resp) ==
    LET s == LoopBody(Received(c, resp), resp) IN
    IF resp.kind = "page" /\ resp.is_last_page = "true" /\ s.pc = "loop"
    THEN [s EXCEPT !.pc = "exit", !.start = c.start]
    ELSE s

\* line 66 with the loop body: the request at offset c.start is issued, then handled
PageStep(c, resp) == LoopBody(Received(c, resp), resp)

\* a warning printed when more than the total was collected instead of fewer
TruncatedReversed(total_count, n_all) == total_count # NoneTotal /\ n_all > total_count

\* line 103: the truncation warning is printed
Truncated(total_count, n_all) == total_count # NoneTotal /\ n_all < total_count

\* lines 103-106
Finish(c) == [c EXCEPT !.warned = Truncated(c.total_count, Len(c.all_likes)), !.pc = "done"]

\* line 106: the value handed to the caller
ReturnValue(c) == [likes |-> c.all_likes]


(***************************************************************************)
(* CSV files.                                                              *)
(***************************************************************************)
\* os.path.exists is false
FileAbsent == [exists |-> FALSE, header |-> "none", rows |-> <<>>]

\* list(csv.reader(f)): the header row and the rows after it
RowCount(file) == IF file.header = "none" THEN 0 ELSE 1 + Len(file.rows)

\* the rows of a table whose first cell is the date d, in file order
RowsOfDate(rows, d) == SelectSeq(rows, LAMBDA row : row[1] = d)

\* the rows of a table whose first cell is another date than d, in file order
RowsNotOfDate(rows, d) == SelectSeq(rows, LAMBDA row : row[1] # d)

(***************************************************************************)
(* fetch_stats.py: upsert by date.                                         *)
(***************************************************************************)
MaxDay   == 2    \* the days 1..MaxDay on which daily runs take place
MaxNotes == 2    \* articles returned to one daily run

Dates == 1..MaxDay

\* the header save_articles_csv writes (new_header, lines 358-359); the model
\* keeps the columns date, key and like_count of an article row
ArticlesHeader == "date,note_id,key,title,published_at,created_at,updated_at,age_days,read_count,like_count,comment_count"

\* the header save_daily_summary_csv writes to a new file (line 391); the model
\* keeps the columns date, article_count and total_like of a summary row
SummaryHeader == "date,article_count,total_pv,total_like,total_comment,follower_count"

\* a version that drops nothing
RemoveNothing(file, date_str) ==
    IF ~file.exists \/ RowCount(file) = 0 THEN [kept |-> <<>>, header |-> "none"]
    ELSE [kept |-> file.rows, header |-> file.header]

\* _remove_rows_by_date: (kept, header), header "none" standing for None
RemoveRowsByDate(file, date_str) ==
    IF ~file.exists THEN [kept |-> <<>>, header |-> "none"]
    ELSE IF RowCount(file) = 0 THEN [kept |-> <<>>, header |-> "none"]
    ELSE [kept |-> RowsNotOfDate(file.rows, date_str), header |-> file.header]

\* lines 369-381: the row written for one article
ArticleRow(today, note) == <<today, note.key, note.like_count>>

ArticleRows(today, articles) == [i \in 1..Len(articles) |-> ArticleRow(today, articles[i])]

\* a version that writes the new rows before the kept ones
SaveArticlesCsvNewFirst(file, today, articles) ==
    LET r == RemoveRowsByDate(file, today) IN
    [exists |-> TRUE, header |-> ArticlesHeader,
     rows |-> ArticleRows(today, articles) \o r.kept]

\* save_articles_csv: the file after the call
SaveArticlesCsv(file, today, articles) ==
    LET r == RemoveRowsByDate(file, today) IN
    [exists |-> TRUE, header |-> ArticlesHeader,
     rows |-> r.kept \o ArticleRows(today, articles)]

\* lines 398-405: the row written for the day
SummaryRow(today, total_like, article_count) == <<today, article_count, total_like>>

\* a version that appends the day's row without dropping the old one
SaveDailySummaryAppending(file, today, total_like, article_count) ==
    [exists |-> TRUE,
     header |-> IF ~file.exists \/ RowCount(file) = 0 THEN SummaryHeader ELSE file.header,
     rows |-> Append(file.rows, SummaryRow(today, total_like, article_count))]

\* save_daily_summary_csv: the file after the call
SaveDailySummaryCsv(file, today, total_like, article_count) ==
    LET r == RemoveRowsByDate(file, today) IN
    [exists |-> TRUE,
     header |-> IF r.header = "none" THEN SummaryHeader ELSE r.header,
     rows |-> Append(r.kept, SummaryRow(today, total_like, article_count))]

(***************************************************************************)
(* fetch_stats.py: fetch_all_articles against the article-metrics endpoint.*)
(***************************************************************************)
\* the articles the metrics endpoint serves
StatsNotes == {[key |-> "a", like_count |-> 1], [key |-> "b", like_count |-> 0]}

\* one response of fetch_api: kind "exit" is a failed request or a response
\* without data.note_stats (sys.exit(1)), kind "page" a page of note_stats
\* with its last_page field
StatsExit == [kind |-> "exit", note_stats |-> <<>>, last_page |-> "absent"]
StatsPage(notes, last) == [kind |-> "page", note_stats |-> notes, last_page |-> last]

StatsResponses ==
    {StatsExit} \cup
    {StatsPage(n, l) : n \in SeqsUpTo(StatsNotes, MaxNotes), l \in LastPageFlags}

\* the endpoint's answers to the successive page requests of one run
StatsScripts ==
    {<<r>> : r \in StatsResponses} \cup
    {<<r1, r2>> : r1 \in StatsResponses, r2 \in StatsResponses}

RECURSIVE SumLikes(_)
SumLikes(notes) == IF notes = <<>> THEN 0 ELSE Head(notes).like_count + SumLikes(Tail(notes))

RECURSIVE FetchAllArticlesFrom(_, _)
\* lines 189-212: the while loop from the notes gathered so far, on the
\* remaining answers; "pending" when the answers end before the loop does.
\* total_like is the stats.total_like of the last page, which the endpoint
\* reports as the sum of the like_count it served.
FetchAllArticlesFrom(all_notes, script) ==
    IF script = <<>> THEN [outcome |-> "pending", all_notes |-> all_notes, total_like |-> 0]
    ELSE LET resp == Head(script) IN
         IF resp.kind = "exit" THEN [outcome |-> "exit1", all_notes |-> <<>>, total_like |-> 0]
         ELSE LET notes == all_notes \o resp.note_stats IN
              \* stats.get("last_page", True)
              IF resp.last_page # "false"
              THEN [outcome |-> "fetched", all_notes |-> notes, total_like |-> SumLikes(notes)]
              ELSE FetchAllArticlesFrom(notes, Tail(script))

\* fetch_all_articles: what one run can end up with
FetchAllArticles(script) == FetchAllArticlesFrom(<<>>, script)

(***************************************************************************)
(* fetch_stats.py: the metadata cache (v3_dates_cache.json).               *)
(***************************************************************************)
MaxToday   == 8    \* the days 0..MaxToday on which fetch_note_dates is called
MaxFetched == 1    \* the days 0..MaxFetched on which the loaded entries were fetched

\* line 264: (today - fetched).days >= 7
StaleDays == 7

\* fetched_at "" (also what the migration of line 240 writes, and the default
\* of line 258 when the field is missing)
EmptyStr == -1
\* a fetched_at that strptime(fetched_at, "%Y-%m-%d") rejects with ValueError
BadDate == -2

\* cache.get(note_key) is None
NoEntry == [present |-> FALSE, published_at |-> "", fetched_at |-> EmptyStr]

\* an entry of the cache; created_at and updated_at travel with published_at
\* and are left out
Entry(published_at, fetched_at) ==
    [present |-> TRUE, published_at |-> published_at, fetched_at |-> fetched_at]

\* a staleness test that still accepts an entry fetched 7 days ago
IsCacheStaleOffByOne(entry, today) ==
    IF entry.fetched_at = EmptyStr THEN TRUE
    ELSE IF entry.fetched_at = BadDate THEN TRUE
    ELSE (today - entry.fetched_at) > StaleDays

\* _is_cache_stale, lines 256-266
IsCacheStale(entry, today) ==
    IF entry.fetched_at = EmptyStr THEN TRUE
    ELSE IF entry.fetched_at = BadDate THEN TRUE
    ELSE (today - entry.fetched_at) >= StaleDays

\* what fetch_note_detail does: "ok" returns the timestamps of the article,
\* "error" is an HTTPError / URLError (empty timestamps are returned),
\* "raise" any other exception, which escapes it
DetailOutcomes == {"ok", "error", "raise"}

\* the published_at the detail endpoint reports
DetailPublishedAt == "t1"

\* a loop body that serves the fetched timestamps without storing them
NoteStepNotStoring(f, detail) ==
    LET note_key == f.articles[f.i]
        entry    == f.cache[note_key]
    IN  IF entry.present /\ ~IsCacheStale(entry, f.today)
        THEN [f EXCEPT !.served = Append(@, entry.published_at), !.i = @ + 1]
        ELSE IF detail = "raise"
             THEN [f EXCEPT !.requests = Append(@, note_key), !.pc = "raised"]
             ELSE [f EXCEPT !.requests = Append(@, note_key),
                            !.served = Append(@, IF detail = "ok" THEN DetailPublishedAt ELSE ""),
                            !.failed[note_key] = IF detail = "error" THEN {f.today} ELSE {},
                            !.i = @ + 1]

\* lines 312-331: the loop body of fetch_note_dates for the note at f.i, with
\* the outcome of the detail request if one is issued
NoteStep(f, detail) ==
    LET note_key == f.articles[f.i]
        entry    == f.cache[note_key]
    IN  IF entry.present /\ ~IsCacheStale(entry, f.today)
        THEN [f EXCEPT !.served = Append(@, entry.published_at), !.i = @ + 1]
        ELSE IF detail = "raise"
             THEN [f EXCEPT !.requests = Append(@, note_key), !.pc = "raised"]
             ELSE LET published_at == IF detail = "ok" THEN DetailPublishedAt ELSE ""
                  IN  [f EXCEPT !.requests = Append(@, note_key),
                                !.served = Append(@, published_at),
                                !.cache[note_key] = Entry(published_at, f.today),
                                !.failed[note_key] = IF detail = "error" THEN {f.today} ELSE {},
                                !.i = @ + 1]

(***************************************************************************)
(* fetch_likes.py: the persisted stores as the run reads and writes them.  *)
(***************************************************************************)
MaxLike == 1    \* like_count values 0..MaxLike in articles.csv

\* LIKES_HEADER (lines 32-33); the model keeps the columns note_key and
\* like_user_id of a like row
LikesHeader == "note_key,like_user_id,like_username,like_user_urlname,liked_at,follower_count"

\* a like_count cell that int() rejects (lines 161-164), such as the empty string
BadCell == -1

\* what reading likes.csv can do: succeed, raise OSError, raise another error
\* (UnicodeDecodeError or csv.Error on the bytes of a row)
LoadOutcomes == {"ok", "oserror", "raise"}

\* load_existing_likes: (existing, count), or an error that escapes it
LoadExistingLikes(file, io) ==
    IF ~file.exists THEN [existing |-> {}, count |-> 0, raised |-> FALSE]
    ELSE IF io = "oserror" THEN [existing |-> {}, count |-> 0, raised |-> FALSE]
    ELSE IF RowCount(file) = 0 THEN [existing |-> {}, count |-> 0, raised |-> FALSE]
    ELSE IF io = "raise" /\ file.rows # <<>> THEN [existing |-> {}, count |-> 0, raised |-> TRUE]
    ELSE [existing |-> Range(file.rows), count |-> Len(file.rows), raised |-> FALSE]

\* lines 161-164: int(row[like_count_idx]), 0 on ValueError
ParseLikeCount(cell) == IF cell = BadCell THEN 0 ELSE cell

\* a dict kept as the sequence of its <<key, value>> items in insertion order
DictHas(items, k) == \E i \in 1..Len(items) : items[i][1] = k

DictGet(items, k, default) ==
    IF DictHas(items, k)
    THEN items[CHOOSE i \in 1..Len(items) : items[i][1] = k][2]
    ELSE default

DictSet(items, k, v) ==
    IF DictHas(items, k)
    THEN [i \in 1..Len(items) |-> IF items[i][1] = k THEN <<k, v>> ELSE items[i]]
    ELSE Append(items, <<k, v>>)

DictKeys(items) == [i \in 1..Len(items) |-> items[i][1]]

RECURSIVE ArticlesByDate(_, _)
\* lines 155-167: the rows folded into articles_by_date, a function from the
\* dates seen to the dict {note_key: like_count} of each
ArticlesByDate(abd, rows) ==
    IF rows = <<>> THEN abd
    ELSE LET row   == Head(rows)
             date  == row[1]
             items == IF date \in DOMAIN abd THEN abd[date] ELSE <<>>
             new   == DictSet(items, row[2], ParseLikeCount(row[3]))
         IN  ArticlesByDate([d \in DOMAIN abd \cup {date} |-> IF d = date THEN new ELSE abd[d]],
                            Tail(rows))

RECURSIVE SortedSeq(_)
\* sorted(): the elements of a set of dates in ascending order
SortedSeq(S) ==
    IF S = {} THEN <<>>
    ELSE LET m == CHOOSE x \in S : \A y \in S : x <= y IN <<m>> \o SortedSeq(S \ {m})

\* the empty dict {}
EmptyDict == [d \in {} |-> <<>>]

\* load_articles_csv: (articles_by_date, sorted_dates)
LoadArticlesCsv(file) ==
    IF ~file.exists THEN [articles_by_date |-> EmptyDict, sorted_dates |-> <<>>]
    ELSE IF RowCount(file) < 2 THEN [articles_by_date |-> EmptyDict, sorted_dates |-> <<>>]
    ELSE IF file.header # ArticlesHeader THEN [articles_by_date |-> EmptyDict, sorted_dates |-> <<>>]
    ELSE LET abd == ArticlesByDate(EmptyDict, file.rows) IN
         [articles_by_date |-> abd, sorted_dates |-> SortedSeq(DOMAIN abd)]

\* a detector that also selects an article whose count stayed the same
FindNotStrict(articles_by_date, sorted_dates) ==
    IF Len(sorted_dates) < 2 THEN [is_none |-> TRUE, changed |-> <<>>]
    ELSE LET latest_data   == articles_by_date[sorted_dates[Len(sorted_dates)]]
             previous_data == articles_by_date[sorted_dates[Len(sorted_dates) - 1]]
         IN  [is_none |-> FALSE,
              changed |-> DictKeys(SelectSeq(latest_data,
                              LAMBDA item : item[2] >= DictGet(previous_data, item[1], 0)))]

\* a detector that skips an article without a row on the previous date
FindSkippingNew(articles_by_date, sorted_dates) ==
    IF Len(sorted_dates) < 2 THEN [is_none |-> TRUE, changed |-> <<>>]
    ELSE LET latest_data   == articles_by_date[sorted_dates[Len(sorted_dates)]]
             previous_data == articles_by_date[sorted_dates[Len(sorted_dates) - 1]]
         IN  [is_none |-> FALSE,
              changed |-> DictKeys(SelectSeq(latest_data,
                              LAMBDA item : item[2] > DictGet(previous_data, item[1], item[2])))]

\* find_articles_with_new_likes: None, or the list changed
FindArticlesWithNewLikes(articles_by_date, sorted_dates) ==
    IF Len(sorted_dates) < 2 THEN [is_none |-> TRUE, changed |-> <<>>]
    ELSE LET latest_data   == articles_by_date[sorted_dates[Len(sorted_dates)]]
             previous_data == articles_by_date[sorted_dates[Len(sorted_dates) - 1]]
         IN  [is_none |-> FALSE,
              changed |-> DictKeys(SelectSeq(latest_data,
                              LAMBDA item : item[2] > DictGet(previous_data, item[1], 0)))]

\* lines 212-220: the rows written for the new likes of one run
LikeRows(new_likes) == new_likes

\* LIKES_HEADER written as a row after other rows: its first two cells
LikesHeaderRow == <<"note_key", "like_user_id">>

\* a version that writes the header on every call
WriteHeaderAlways(file) == TRUE

\* lines 198-206: write_header, true for an absent file and for one whose
\* content is empty
WriteHeader(file) == ~file.exists \/ RowCount(file) = 0

\* a version that opens likes.csv for writing instead of appending
AppendLikesCsvRewriting(file, new_likes) ==
    IF new_likes = <<>> THEN file
    ELSE [exists |-> TRUE, header |-> LikesHeader, rows |-> LikeRows(new_likes)]

\* append_likes_csv: the file after the call; in append mode the header, when
\* written, goes after whatever the file holds, so it is the first row only
\* of a file that held nothing
AppendLikesCsv(file, new_likes) ==
    IF new_likes = <<>> THEN file
    ELSE LET write_header == WriteHeader(file) IN
         [exists |-> TRUE,
          header |-> IF write_header /\ RowCount(file) = 0 THEN LikesHeader ELSE file.header,
          rows |-> IF write_header /\ RowCount(file) > 0
                   THEN file.rows \o <<LikesHeaderRow>> \o LikeRows(new_likes)
                   ELSE file.rows \o LikeRows(new_likes)]

(***************************************************************************)
(* Specification SpecCollect: one call of fetch_all_likes_for_article      *)
(* against an endpoint chosen at the start.                                *)
(***************************************************************************)
\* no run of fetch_likes.main is under way
RunIdle ==
    [pc |-> "idle", mode |-> "none", outcome |-> "none", sorted_dates |-> <<>>,
     existing_set |-> {}, existing_count |-> 0, targets |-> <<>>, i |-> 1,
     all_new_likes |-> <<>>, requests |-> 0, exit_code |-> 0,
     \* the targets whose collection ended on a failed page fetch, in this run
     \* and in the run before it
     failed |-> {}, prev_failed |-> {},
     \* the index as load_existing_likes returned it, and the records the
     \* calls of fetch_all_likes_for_article returned, in arrival order
     loaded |-> {}, collected |-> <<>>]

\* the change detector has not been applied
DetIdle == [done |-> FALSE, sorted_dates |-> <<>>, is_none |-> FALSE, changed |-> <<>>]

\* no call of fetch_note_dates is under way
FndIdle ==
    [pc |-> "idle", today |-> 0, articles |-> <<>>, i |-> 1, cache |-> [k \in Keys |-> NoEntry],
     requests |-> <<>>, served |-> <<>>,
     \* the calls made so far, and the persisted cache as it was before this call
     runs |-> 0, before |-> [k \in Keys |-> NoEntry],
     \* per key, the day of its latest detail request if that request failed
     \* with HTTPError or URLError (over all calls so far)
     failed |-> [k \in Keys |-> {}]]

\* no call of save_articles_csv is under way
WrIdle ==
    [pc |-> "idle", runs |-> 0, today |-> 0, queue |-> <<>>, header |-> "none", new_rows |-> <<>>,
     summary_row |-> <<>>, before |-> FileAbsent, summary_before |-> FileAbsent]

\* no run of fetch_stats.main has taken place
StatsIdle ==
    [today |-> 0, outcome |-> "none",
     exit_code |-> 0, replaced |-> FALSE, summary_replaced |-> FALSE]

InitRest ==
    /\ likes_csv = FileAbsent
    /\ articles_csv = FileAbsent
    /\ run = RunIdle
    /\ likes_at_start = FileAbsent
    /\ nruns = 0
    /\ det = DetIdle
    /\ summary_csv = FileAbsent
    /\ stats = StatsIdle
    /\ last_articles = [d \in Dates |-> <<>>]
    /\ last_summary = [d \in Dates |-> <<>>]
    /\ cache = [k \in Keys |-> NoEntry]
    /\ fnd = FndIdle
    /\ wr = WrIdle

InitCollect ==
    /\ ep \in Endpoints
    /\ col = ColInit
    /\ twin = ColInit
    /\ InitRest

\* the is_last_page values the twin call may be given in place of the endpoint's
TwinFlags(e) == IF e.kind = "paged" THEN {"false"} ELSE LastPageFlags

\* one iteration of the loop; the twin call receives the same page with
\* another value of the is_last_page field
FetchPage ==
    /\ col.pc = "loop"
    /\ \E resp \in Responses(ep, col.start), flag \in TwinFlags(ep) :
          /\ col' = PageStep(col, resp)
          /\ twin' = PageStep(twin, [resp EXCEPT !.is_last_page = flag])
    /\ UNCHANGED <<ep, articles_csv, likesVars, statsVars, stepVars>>

\* the loop has ended: lines 103-106
Return ==
    /\ col.pc = "exit"
    /\ col' = Finish(col)
    /\ twin' = Finish(twin)
    /\ UNCHANGED <<ep, articles_csv, likesVars, statsVars, stepVars>>

NextCollect == FetchPage \/ Return

SpecCollect == InitCollect /\ [][NextCollect]_vars

\* a call against the arbitrary endpoint that never signals a last page
InitTerminate ==
    /\ ep = AnyEndpoint("false")
    /\ col = ColInit
    /\ twin = ColInit
    /\ InitRest

\* the call keeps running: every request comes back, with a response, an
\* error or the 30 s timeout of line 45, and the loop goes on to its next step
SpecTerminate == InitTerminate /\ [][NextCollect]_vars /\ WF_vars(NextCollect)

(***************************************************************************)
(* Specification SpecStats: daily runs of fetch_stats.main, one after the  *)
(* other, on days that never go back.                                      *)
(***************************************************************************)
\* what fetch_all_articles can end with in one run
StatsFetchOutcomes ==
    {o \in {FetchAllArticles(script) : script \in StatsScripts} :
        o.outcome # "pending" /\ Len(o.all_notes) <= MaxNotes}

InitStats ==
    /\ ep = AnyEndpoint("absent")
    /\ col = ColInit
    /\ twin = ColInit
    /\ InitRest

\* fetch_stats.main, lines 410-449, for a run that gets its data: the articles
\* are fetched, then save_articles_csv and save_daily_summary_csv are called
StatsMain ==
    \E d \in Dates, o \in StatsFetchOutcomes :
        /\ d >= stats.today
        /\ o.outcome = "fetched"
        /\ articles_csv' = SaveArticlesCsv(articles_csv, d, o.all_notes)
        /\ summary_csv' = SaveDailySummaryCsv(summary_csv, d, o.total_like, Len(o.all_notes))
        /\ stats' = [today |-> d, outcome |-> "saved", exit_code |-> 0,
                     replaced |-> /\ last_articles[d] # <<>>
                                  /\ last_articles[d] # ArticleRows(d, o.all_notes)
                                  /\ o.all_notes # <<>>,
                     summary_replaced |->
                         /\ last_summary[d] # <<>>
                         /\ last_summary[d] #
                                <<SummaryRow(d, o.total_like, Len(o.all_notes))>>]
        /\ last_articles' = [last_articles EXCEPT ![d] = ArticleRows(d, o.all_notes)]
        /\ last_summary' =
              [last_summary EXCEPT ![d] = <<SummaryRow(d, o.total_like, Len(o.all_notes))>>]
        /\ UNCHANGED <<collectVars, likesVars, stepVars>>

\* fetch_stats.main for a run that ends in sys.exit(1) before anything is
\* saved (validate_cookie, verify_auth, fetch_api, fetch_all_articles)
StatsMainExits ==
    \E d \in Dates, o \in StatsFetchOutcomes :
        /\ d >= stats.today
        /\ o.outcome = "exit1"
        /\ stats' = [today |-> d, outcome |-> "exit1", exit_code |-> 1, replaced |-> FALSE,
                     summary_replaced |-> FALSE]
        /\ UNCHANGED <<collectVars, likesVars, articles_csv, summary_csv,
                       last_articles, last_summary, stepVars>>

NextStats == StatsMain \/ StatsMainExits

SpecStats == InitStats /\ [][NextStats]_vars

(***************************************************************************)
(* Specification SpecMigrate: the daily runs of SpecStats on files left by *)
(* an earlier version of the program, whose headers differ from the ones   *)
(* the current code expects.                                               *)
(***************************************************************************)
\* the header rows _remove_rows_by_date reads from files of an earlier schema
OldArticlesHeader == "date,note_id,key,title,read_count,like_count,comment_count"
OldSummaryHeader  == "date,article_count,total_pv,total_like,total_comment"

\* the day before the first run, the date of the rows the old files hold
OldDay == 0

\* the files a run can find at one path: none, an empty one, or one with the
\* given header over each of the given tables
FoundFiles(headers, tables) ==
    {FileAbsent, [exists |-> TRUE, header |-> "none", rows |-> <<>>]} \cup
    {[exists |-> TRUE, header |-> h, rows |-> t] : h \in headers, t \in tables}

InitMigrate ==
    /\ ep = AnyEndpoint("absent")
    /\ col = ColInit
    /\ twin = ColInit
    /\ likes_csv = FileAbsent
    /\ articles_csv \in FoundFiles({OldArticlesHeader, ArticlesHeader},
                                   {<<>>, <<<<OldDay, "a", 1>>, <<OldDay, "b", 0>>>>})
    /\ run = RunIdle
    /\ likes_at_start = FileAbsent
    /\ nruns = 0
    /\ det = DetIdle
    /\ summary_csv \in FoundFiles({OldSummaryHeader, SummaryHeader}, {<<>>, <<<<OldDay, 2, 1>>>>})
    /\ stats = StatsIdle
    /\ last_articles = [d \in Dates |-> <<>>]
    /\ last_summary = [d \in Dates |-> <<>>]
    /\ cache = [k \in Keys |-> NoEntry]
    /\ fnd = FndIdle
    /\ wr = WrIdle

SpecMigrate == InitMigrate /\ [][NextStats]_vars

(***************************************************************************)
(* Specification SpecWrite: the two save calls of daily runs taken one     *)
(* write at a time, with the process killed at any point between the       *)
(* opening of a file and the end of the run. A kill leaves on disk the     *)
(* rows written so far: the rows still in the writer's buffer are lost, so *)
(* every prefix of the rows is a possible content.                         *)
(***************************************************************************)
MaxWriteRuns == 2    \* daily runs that reach the save calls

\* open(filepath, "w"): the file exists and is empty
OpenForWrite == [exists |-> TRUE, header |-> "none", rows |-> <<>>]

InitWrite ==
    /\ ep = AnyEndpoint("absent")
    /\ col = ColInit
    /\ twin = ColInit
    /\ InitRest

\* save_articles_csv, lines 360-363: the rows of other dates are read, then
\* articles.csv is opened for writing, which truncates it
WrOpenArticles ==
    /\ wr.pc \in {"idle", "killed"}
    /\ wr.runs < MaxWriteRuns
    /\ \E d \in Dates, o \in StatsFetchOutcomes :
          /\ d >= wr.today
          /\ o.outcome = "fetched"
          /\ LET r == RemoveRowsByDate(articles_csv, d) IN
             wr' = [pc |-> "articles_header", runs |-> wr.runs + 1, today |-> d,
                    queue |-> r.kept \o ArticleRows(d, o.all_notes),
                    header |-> ArticlesHeader,
                    new_rows |-> ArticleRows(d, o.all_notes),
                    summary_row |-> SummaryRow(d, o.total_like, Len(o.all_notes)),
                    before |-> articles_csv, summary_before |-> summary_csv]
    /\ articles_csv' = OpenForWrite
    /\ UNCHANGED <<collectVars, likesVars, statsVars, cache, fnd>>

\* line 365: writer.writerow(new_header)
WrArticlesHeader ==
    /\ wr.pc = "articles_header"
    /\ articles_csv' = [articles_csv EXCEPT !.header = wr.header]
    /\ wr' = [wr EXCEPT !.pc = "articles_rows"]
    /\ UNCHANGED <<collectVars, likesVars, statsVars, cache, fnd>>

\* lines 366-381: the next row, a kept one or one of today's, is written
WrArticlesRow ==
    /\ wr.pc = "articles_rows"
    /\ wr.queue # <<>>
    /\ articles_csv' = [articles_csv EXCEPT !.rows = Append(@, Head(wr.queue))]
    /\ wr' = [wr EXCEPT !.queue = Tail(@)]
    /\ UNCHANGED <<collectVars, likesVars, statsVars, cache, fnd>>

\* save_daily_summary_csv, lines 389-393: articles.csv is closed; the summary
\* rows of other dates are read, then daily_summary.csv is opened for writing
WrOpenSummary ==
    /\ wr.pc = "articles_rows"
    /\ wr.queue = <<>>
    /\ LET r == RemoveRowsByDate(summary_csv, wr.today) IN
       wr' = [wr EXCEPT !.pc = "summary_header",
                        !.queue = Append(r.kept, wr.summary_row),
                        !.header = IF r.header = "none" THEN SummaryHeader ELSE r.header]
    /\ summary_csv' = OpenForWrite
    /\ UNCHANGED <<collectVars, likesVars, articles_csv, stats, last_articles, last_summary,
                   cache, fnd>>

\* line 395: writer.writerow(header)
WrSummaryHeader ==
    /\ wr.pc = "summary_header"
    /\ summary_csv' = [summary_csv EXCEPT !.header = wr.header]
    /\ wr' = [wr EXCEPT !.pc = "summary_rows"]
    /\ UNCHANGED <<collectVars, likesVars, articles_csv, stats, last_articles, last_summary,
                   cache, fnd>>

\* lines 396-405: the next row, a kept one or today's, is written
WrSummaryRow ==
    /\ wr.pc = "summary_rows"
    /\ wr.queue # <<>>
    /\ summary_csv' = [summary_csv EXCEPT !.rows = Append(@, Head(wr.queue))]
    /\ wr' = [wr EXCEPT !.queue = Tail(@)]
    /\ UNCHANGED <<collectVars, likesVars, articles_csv, stats, last_articles, last_summary,
                   cache, fnd>>

\* lines 405-449: daily_summary.csv is closed and the run ends
WrDone ==
    /\ wr.pc = "summary_rows"
    /\ wr.queue = <<>>
    /\ wr' = [wr EXCEPT !.pc = "idle"]
    /\ UNCHANGED <<collectVars, likesVars, articles_csv, statsVars, cache, fnd>>

\* the process is terminated while a file is open or between the two saves
WrKilled ==
    /\ wr.pc \notin {"idle", "killed"}
    /\ wr' = [wr EXCEPT !.pc = "killed"]
    /\ UNCHANGED <<collectVars, likesVars, articles_csv, statsVars, cache, fnd>>

NextWrite ==
    \/ WrOpenArticles
    \/ WrArticlesHeader
    \/ WrArticlesRow
    \/ WrOpenSummary
    \/ WrSummaryHeader
    \/ WrSummaryRow
    \/ WrDone
    \/ WrKilled

SpecWrite == InitWrite /\ [][NextWrite]_vars

(***************************************************************************)
(* Specification SpecDetect: load_articles_csv and                         *)
(* find_articles_with_new_likes applied to an articles.csv drawn from the  *)
(* files with up to MaxSnapDates dates, the two articles and any cells.    *)
(***************************************************************************)
MaxSnapDates == 3    \* snapshot dates in the articles.csv given to the detector

KeySeq == <<"a", "b">>

\* the like_count cells of the detector's input: two counts, which give every
\* order two cells can be in, and a cell int() rejects
LikeCells == {0, 1, BadCell}

\* the n-th (date, key) pair, date by date
PairDate(n) == ((n - 1) \div Len(KeySeq)) + 1
PairKey(n)  == KeySeq[((n - 1) % Len(KeySeq)) + 1]

RECURSIVE SnapshotRows(_, _)
\* the rows of a snapshot file: f gives each of the first n (date, key) pairs
\* its like_count cell, or <<>> for no row
SnapshotRows(f, n) ==
    IF n = 0 THEN <<>>
    ELSE SnapshotRows(f, n - 1) \o
         (IF f[n] = <<>> THEN <<>> ELSE << <<PairDate(n), PairKey(n), f[n][1]>> >>)

DetectInputs(ndates) ==
    {[exists |-> TRUE, header |-> ArticlesHeader,
      rows |-> SnapshotRows(f, ndates * Len(KeySeq))] :
        f \in [1..(ndates * Len(KeySeq)) -> SeqsUpTo(LikeCells, 1)]}

InitDetect ==
    /\ ep = AnyEndpoint("absent")
    /\ col = ColInit
    /\ twin = ColInit
    /\ likes_csv = FileAbsent
    /\ articles_csv \in DetectInputs(MaxSnapDates)
    /\ run = RunIdle
    /\ likes_at_start = FileAbsent
    /\ nruns = 0
    /\ det = DetIdle
    /\ summary_csv = FileAbsent
    /\ stats = StatsIdle
    /\ last_articles = [d \in Dates |-> <<>>]
    /\ last_summary = [d \in Dates |-> <<>>]
    /\ cache = [k \in Keys |-> NoEntry]
    /\ fnd = FndIdle
    /\ wr = WrIdle

\* lines 227 and 260: the file is loaded and the detector applied
Detect ==
    /\ ~det.done
    /\ LET a == LoadArticlesCsv(articles_csv)
           r == FindArticlesWithNewLikes(a.articles_by_date, a.sorted_dates)
       IN  det' = [done |-> TRUE, sorted_dates |-> a.sorted_dates,
                   is_none |-> r.is_none, changed |-> r.changed]
    /\ UNCHANGED <<collectVars, likes_csv, articles_csv, run, likes_at_start, nruns, statsVars, stepVars>>

NextDetect == Detect

SpecDetect == InitDetect /\ [][NextDetect]_vars

(***************************************************************************)
(* Specification SpecLikes: runs of fetch_likes.main, one after the other, *)
(* from an absent likes.csv, with daily snapshots written to articles.csv  *)
(* between them.                                                           *)
(***************************************************************************)
MaxLikeRuns == 2    \* runs of the like collector
MaxCounted  == 1    \* the page requests of a run are counted up to MaxCounted

\* the responses the endpoint gives during the runs: a failure, or any short
\* page that reports no like_count or reports MaxUser likes
RunResponses ==
    {FailResp, RaiseResp} \cup
    {Page(l, n, "absent") : l \in SeqsUpTo(1..MaxUser, MaxPageLen), n \in {NoLikeCount, MaxUser}}

\* the run's count of page requests after n more
Counted(count, n) == Min(count + n, MaxCounted)

\* the articles a daily snapshot can hold: each key at most once, any like_count
SnapshotNotes ==
    {SelectSeq([i \in 1..Len(KeySeq) |-> [key |-> KeySeq[i], like_count |-> f[i]]],
               LAMBDA note : note.like_count >= 0) :
        f \in [1..Len(KeySeq) -> -1..MaxLike]}

InitLikes ==
    /\ ep = AnyEndpoint("absent")
    /\ col = ColInit
    /\ twin = ColInit
    /\ InitRest

\* the daily snapshot run writes the next day's rows to articles.csv
SnapshotWritten ==
    /\ run.pc = "idle"
    /\ nruns < MaxLikeRuns
    /\ \E d \in Dates, notes \in SnapshotNotes :
          /\ \A i \in 1..Len(articles_csv.rows) : articles_csv.rows[i][1] < d
          /\ articles_csv' = SaveArticlesCsv(articles_csv, d, notes)
    /\ UNCHANGED <<collectVars, likesVars, statsVars, stepVars>>

\* a filter that lets every fetched like through
FilterNewKeepingAll(likes, existing_set) == likes

\* lines 246 and 276: the fetched likes that are not in existing_set
FilterNew(likes, existing_set) == SelectSeq(likes, LAMBDA l : l \notin existing_set)

\* a process that lets the exception reach the interpreter
ExitStatusUncaught(outcome) == IF outcome = "exception" THEN 1 ELSE 0

\* lines 292-296 and 300: the exit status of the process, sys.exit(0) in the
\* except clause and 0 when main returns
ExitStatus(outcome) == 0

\* the run's record once the process has ended
Exited(r) == IF r.pc = "exited" THEN [r EXCEPT !.exit_code = ExitStatus(r.outcome)] ELSE r

\* the record (note_key, like_user_id) of each like of a fetched list
Records(note_key, likes) == [i \in 1..Len(likes) |-> <<note_key, likes[i]>>]

\* lines 224-271 of main: both stores are loaded, the mode and the targets
\* decided; the run goes on to collect or ends here
StartWith(article_outcomes, like_outcomes) ==
    /\ run.pc = "idle"
    /\ nruns < MaxLikeRuns
    /\ nruns' = nruns + 1
    /\ likes_at_start' = likes_csv
    /\ \E aio \in article_outcomes, io \in like_outcomes :
        LET a        == LoadArticlesCsv(articles_csv)
            e        == LoadExistingLikes(likes_csv, io)
            latest   == a.sorted_dates[Len(a.sorted_dates)]
            found    == FindArticlesWithNewLikes(a.articles_by_date, a.sorted_dates)
            started  == [run EXCEPT !.sorted_dates = a.sorted_dates]
        IN  run' = Exited(
              IF aio = "raise"
              THEN [run EXCEPT !.pc = "exited", !.outcome = "exception"]
              ELSE IF a.sorted_dates = <<>>
              THEN [started EXCEPT !.pc = "exited", !.outcome = "no_articles"]
              ELSE IF e.raised
              THEN [started EXCEPT !.pc = "exited", !.outcome = "exception"]
              ELSE IF e.count = 0
              THEN [started EXCEPT !.pc = "collect", !.mode = "baseline",
                                   !.existing_set = e.existing, !.existing_count = e.count,
                                   !.loaded = e.existing,
                                   !.targets = DictKeys(a.articles_by_date[latest])]
              ELSE LET inc == [started EXCEPT !.mode = "incremental",
                                              !.existing_set = e.existing,
                                              !.loaded = e.existing,
                                              !.existing_count = e.count]
                   IN  IF found.is_none
                       THEN [inc EXCEPT !.pc = "exited", !.outcome = "insufficient"]
                       ELSE IF found.changed = <<>>
                       THEN [inc EXCEPT !.pc = "exited", !.outcome = "no_change"]
                       ELSE [inc EXCEPT !.pc = "collect", !.targets = found.changed])
    /\ UNCHANGED <<collectVars, likes_csv, articles_csv, det, statsVars, stepVars>>

LikesStart == StartWith({"ok", "raise"}, LoadOutcomes)

\* lines 245 and 277: the call of fetch_all_likes_for_article for the current
\* target issues a page request and goes on to the next page
FetchPageFrom(responses) ==
    /\ run.pc = "collect"
    /\ run.i <= Len(run.targets)
    /\ \E c \in {PageStep(col, resp) : resp \in responses} :
          /\ c.pc = "loop"
          /\ col' = c
    /\ UNCHANGED <<ep, twin, articles_csv, likesVars, statsVars, stepVars>>

LikesFetchPage == FetchPageFrom(RunResponses)

\* lines 244-252 and 274-286: the call issues its last page request and
\* returns, and its likes are filtered; or an exception escapes it to the
\* except clause of main
FetchArticleFrom(responses) ==
    /\ run.pc = "collect"
    /\ run.i <= Len(run.targets)
    /\ \E c \in {PageStep(col, resp) : resp \in responses} :
        LET note_key == run.targets[run.i]
            likes    == Records(note_key, ReturnValue(Finish(c)).likes)
            new      == FilterNew(likes, run.existing_set)
        IN  /\ c.pc \in {"exit", "raised"}
            /\ run' = Exited(
                  IF c.pc = "raised"
                  THEN [run EXCEPT !.pc = "exited", !.outcome = "exception",
                                   !.requests = Counted(@, Len(c.requests)),
                                   !.failed = @ \cup {note_key}]
                  ELSE [run EXCEPT !.all_new_likes = @ \o new,
                                   !.collected = @ \o likes,
                                   !.existing_set = @ \cup Range(new),
                                   !.requests = Counted(@, Len(c.requests)),
                                   !.failed = IF c.last = "fail" THEN @ \cup {note_key} ELSE @,
                                   !.i = @ + 1])
    /\ col' = ColInit
    /\ UNCHANGED <<ep, twin, likes_csv, articles_csv, likes_at_start, nruns, det, statsVars, stepVars>>

LikesFetchArticle == FetchArticleFrom(RunResponses)

\* lines 254-256 and 288-290: the new likes are appended and the run ends
LikesPersist ==
    /\ run.pc = "collect"
    /\ run.i > Len(run.targets)
    /\ likes_csv' = AppendLikesCsv(likes_csv, run.all_new_likes)
    /\ run' = Exited([run EXCEPT !.pc = "exited", !.outcome = "done"])
    /\ UNCHANGED <<collectVars, articles_csv, likes_at_start, nruns, det, statsVars, stepVars>>

\* the process has ended; the next run starts from the files alone
LikesEnd ==
    /\ run.pc = "exited"
    /\ run' = [RunIdle EXCEPT !.prev_failed = run.failed]
    /\ likes_at_start' = likes_csv
    /\ UNCHANGED <<collectVars, likes_csv, articles_csv, nruns, det, statsVars, stepVars>>

NextLikes ==
    \/ SnapshotWritten
    \/ LikesStart
    \/ LikesFetchPage
    \/ LikesFetchArticle
    \/ LikesPersist
    \/ LikesEnd

SpecLikes == InitLikes /\ [][NextLikes]_vars

(***************************************************************************)
(* Specification SpecRerun: two runs of fetch_likes.main in succession on  *)
(* the same articles.csv, against a remote whose likes do not change: each *)
(* article has its own paged endpoint, which answers a request for an      *)
(* offset the same way every time.                                         *)
(***************************************************************************)
\* the endpoint of one article: up to MaxUser likes, a like_count that is
\* exact or one too high, and past the end an empty page or the last page again
RemoteEndpoints ==
    {[kind |-> "paged", nrec |-> n, like_count |-> n, after |-> "empty", flag |-> "false"] :
        n \in 0..MaxUser} \cup
    {[kind |-> "paged", nrec |-> n, like_count |-> n + 1, after |-> a, flag |-> "false"] :
        n \in 0..MaxUser, a \in {"empty", "repeat"}}

\* the articles.csv the two runs read: no file, or the snapshots of one or two days
SnapshotFiles ==
    {FileAbsent} \cup
    {SaveArticlesCsv(FileAbsent, 1, n1) : n1 \in SnapshotNotes} \cup
    {SaveArticlesCsv(SaveArticlesCsv(FileAbsent, 1, n1), 2, n2) :
        n1 \in SnapshotNotes, n2 \in SnapshotNotes}

InitRerun ==
    /\ ep \in [Keys -> RemoteEndpoints]
    /\ col = ColInit
    /\ twin = ColInit
    /\ likes_csv = FileAbsent
    /\ articles_csv \in SnapshotFiles
    /\ run = RunIdle
    /\ likes_at_start = FileAbsent
    /\ nruns = 0
    /\ det = DetIdle
    /\ summary_csv = FileAbsent
    /\ stats = StatsIdle
    /\ last_articles = [d \in Dates |-> <<>>]
    /\ last_summary = [d \in Dates |-> <<>>]
    /\ cache = [k \in Keys |-> NoEntry]
    /\ fnd = FndIdle
    /\ wr = WrIdle

\* the start of a run: articles.csv is the same well-formed file in both runs
\* and reads the same way, the read of likes.csv has any of its outcomes
RerunStart == StartWith({"ok"}, LoadOutcomes)

\* a page request of the current target's call, answered by its endpoint
RerunFetchPage ==
    /\ run.pc = "collect" /\ run.i <= Len(run.targets)
    /\ FetchPageFrom(Responses(ep[run.targets[run.i]], col.start))

\* the last page request of the current target's call, answered by its endpoint
RerunFetchArticle ==
    /\ run.pc = "collect" /\ run.i <= Len(run.targets)
    /\ FetchArticleFrom(Responses(ep[run.targets[run.i]], col.start))

NextRerun ==
    \/ RerunStart
    \/ RerunFetchPage
    \/ RerunFetchArticle
    \/ LikesPersist
    \/ LikesEnd

SpecRerun == InitRerun /\ [][NextRerun]_vars

(***************************************************************************)
(* Specification SpecHeader: the runs of SpecLikes, starting from a        *)
(* likes.csv that is absent, empty or holds the header alone.              *)
(***************************************************************************)
\* likes.csv before the first run
InitialLikesFiles ==
    {FileAbsent,
     [exists |-> TRUE, header |-> "none", rows |-> <<>>],
     [exists |-> TRUE, header |-> LikesHeader, rows |-> <<>>]}

InitHeader ==
    /\ ep = AnyEndpoint("absent")
    /\ col = ColInit
    /\ twin = ColInit
    /\ likes_csv \in InitialLikesFiles
    /\ articles_csv = FileAbsent
    /\ run = RunIdle
    /\ likes_at_start = likes_csv
    /\ nruns = 0
    /\ det = DetIdle
    /\ summary_csv = FileAbsent
    /\ stats = StatsIdle
    /\ last_articles = [d \in Dates |-> <<>>]
    /\ last_summary = [d \in Dates |-> <<>>]
    /\ cache = [k \in Keys |-> NoEntry]
    /\ fnd = FndIdle
    /\ wr = WrIdle

SpecHeader == InitHeader /\ [][NextLikes]_vars

(***************************************************************************)
(* Specification SpecCache: one call of fetch_note_dates on a loaded cache.*)
(***************************************************************************)
\* the entries load_dates_cache can return for a key
LoadedEntries ==
    {NoEntry} \cup {Entry("t0", f) : f \in {EmptyStr, BadDate} \cup 0..MaxFetched}

\* the article lists fetch_note_dates can be given, by key
NoteLists == SeqsUpTo(Keys, Cardinality(Keys))

InitCache ==
    /\ ep = AnyEndpoint("absent")
    /\ col = ColInit
    /\ twin = ColInit
    /\ likes_csv = FileAbsent
    /\ articles_csv = FileAbsent
    /\ run = RunIdle
    /\ likes_at_start = FileAbsent
    /\ nruns = 0
    /\ det = DetIdle
    /\ summary_csv = FileAbsent
    /\ stats = StatsIdle
    /\ last_articles = [d \in Dates |-> <<>>]
    /\ last_summary = [d \in Dates |-> <<>>]
    /\ cache \in [Keys -> LoadedEntries]
    /\ \E today \in 0..MaxToday, articles \in NoteLists :
          \* line 309: cache = load_dates_cache()
          fnd = [FndIdle EXCEPT !.pc = "loop", !.today = today, !.articles = articles,
                                !.cache = cache, !.runs = 1, !.before = cache]
    /\ wr = WrIdle

\* lines 312-331: one iteration of the loop over the articles
CacheNote ==
    /\ fnd.pc = "loop"
    /\ fnd.i <= Len(fnd.articles)
    /\ \E detail \in DetailOutcomes : fnd' = NoteStep(fnd, detail)
    /\ UNCHANGED <<collectVars, articles_csv, likesVars, statsVars, cache, wr>>

\* lines 333-336: save_dates_cache(cache) and return
CacheSave ==
    /\ fnd.pc = "loop"
    /\ fnd.i > Len(fnd.articles)
    /\ cache' = fnd.cache
    /\ fnd' = [fnd EXCEPT !.pc = "done"]
    /\ UNCHANGED <<collectVars, articles_csv, likesVars, statsVars, wr>>

NextCache == CacheNote \/ CacheSave

SpecCache == InitCache /\ [][NextCache]_vars

(***************************************************************************)
(* Specification SpecCacheRuns: the calls of fetch_note_dates of           *)
(* successive daily runs, from no cache document, each call loading the    *)
(* document the call before it saved.                                      *)
(***************************************************************************)
MaxCacheRuns == 2    \* daily runs that call fetch_note_dates

\* what reading v3_dates_cache.json can do: succeed, or fail with
\* JSONDecodeError or OSError
CacheLoadOutcomes == {"ok", "unreadable"}

\* load_dates_cache, lines 228-246: the persisted entries, or {} when the
\* document cannot be read
LoadDatesCache(persisted, io) ==
    IF io = "unreadable" THEN [k \in Keys |-> NoEntry] ELSE persisted

\* the days a run can take place on after a run on day t: the same day, the
\* next day, a week later
RunDays(t) == {t, t + 1, t + StaleDays} \cap 0..MaxToday

InitCacheRuns ==
    /\ ep = AnyEndpoint("absent")
    /\ col = ColInit
    /\ twin = ColInit
    /\ InitRest

\* lines 307-310: a daily run calls fetch_note_dates, which loads the cache
CacheStart ==
    /\ fnd.pc \in {"idle", "done", "raised"}
    /\ fnd.runs < MaxCacheRuns
    /\ \E today \in RunDays(fnd.today), articles \in NoteLists, io \in CacheLoadOutcomes :
          fnd' = [FndIdle EXCEPT !.pc = "loop", !.today = today, !.articles = articles,
                                 !.cache = LoadDatesCache(cache, io),
                                 !.runs = fnd.runs + 1, !.before = cache,
                                 !.failed = fnd.failed]
    /\ UNCHANGED <<collectVars, articles_csv, likesVars, statsVars, cache, wr>>

NextCacheRuns == CacheStart \/ CacheNote \/ CacheSave

SpecCacheRuns == InitCacheRuns /\ [][NextCacheRuns]_vars

(***************************************************************************)
(* Claims about fetch_all_likes_for_article (SpecCollect).                 *)
(***************************************************************************)
CeilDiv(a, b) == (a + b - 1) \div b

\* the endpoint of C2: like_count is the true number of records, no last page
\* is ever signalled, the pages past the true end repeat records already served
HonestRepeating == ep.kind = "paged" /\ ep.like_count = ep.nrec /\ ep.after # "empty"

\* the endpoint of C4: the records run out before like_count is reached
Unreachable == ep.kind = "paged" /\ ep.nrec < ep.like_count

\* C2: against an endpoint that never signals a last page and repeats served
\* records past the true end, the call issues at most ceil(total/50)+1 page
\* requests and ends with exactly total distinct records and no truncation
\* warning (total = like_count of the first page).
C2_SafeTermination ==
    HonestRepeating =>
        /\ col.pc \in {"loop", "exit", "done"}
        /\ Len(col.requests) <= CeilDiv(ep.like_count, LIKES_API_SIZE) + 1
        /\ col.pc = "done" =>
              /\ Len(ReturnValue(col).likes) = ep.like_count
              /\ Cardinality(Range(ReturnValue(col).likes)) = ep.like_count
              /\ ~col.warned

\* a call over three pages against the repeating endpoint has returned
C2_Witness ==
    /\ HonestRepeating /\ ep.after = "repeat"
    /\ ep.nrec > 2 * LIKES_API_SIZE
    /\ col.pc = "done"
    /\ Len(col.requests) = 3

Observable(c) == [c EXCEPT !.flag = "none"]

\* C5: two calls fed the same responses except for the is_last_page field issue
\* the same page requests and hold and return the same records.
C5_LastPageFlagIgnored == Observable(twin) = Observable(col)

\* two calls went on to a second page although one of them was told
\* is_last_page = true and the other was not
C5_Witness ==
    /\ Len(col.requests) >= 2
    /\ twin.flag = "true"
    /\ col.flag \in {"false", "absent"}
    /\ col.pc = "done"
    /\ Len(col.all_likes) >= 2

\* C12: when a page fetch fails, with a transport error or with a decode
\* error, the collection for the article ends at once with no further page
\* request, and the call returns the records of the earlier pages to its
\* caller.
C12_EarlyStopOnFailure ==
    col.last \in {"fail", "raise"} =>
        /\ col.pc \in {"exit", "done"}
        /\ Len(ReturnValue(col).likes) = Cardinality(col.seen_ids)

(***************************************************************************)
(* Claims about the daily snapshot files (SpecStats).                      *)
(***************************************************************************)
\* C3: after upsert(D, rows1) then upsert(D, rows2) the article-snapshot file
\* holds exactly rows2 for date D and still holds every row of the other
\* dates: for each date the file holds exactly the rows of the latest upsert
\* for that date.
C3_IdempotentUpsert ==
    \A d \in Dates : RowsOfDate(articles_csv.rows, d) = last_articles[d]

\* a second upsert for a date has replaced other rows of that date while the
\* file held rows of another date
C3_Witness ==
    /\ stats.replaced
    /\ \E d \in Dates : d # stats.today /\ last_articles[d] # <<>>
    /\ articles_csv.rows # <<>>

\* C9: the article-snapshot file holds at most one row per (date, key),
\* whatever list of articles the metrics endpoint returned.
C9_OneRowPerDateKey ==
    \A i, j \in 1..Len(articles_csv.rows) :
        (articles_csv.rows[i][1] = articles_csv.rows[j][1]
            /\ articles_csv.rows[i][2] = articles_csv.rows[j][2]) => i = j

\* C10: the daily-summary file holds at most one row per date, and the row of
\* a date holds the values of the latest run for that date.
C10_SummaryLastWriteWins ==
    \A d \in Dates :
        /\ Len(RowsOfDate(summary_csv.rows, d)) <= 1
        /\ RowsOfDate(summary_csv.rows, d) = last_summary[d]

\* a later run for a date has replaced that date's summary row by other
\* values while the file held the row of another date
C10_Witness ==
    /\ stats.summary_replaced
    /\ Len(summary_csv.rows) >= 2
    /\ \E d \in Dates : d # stats.today /\ last_summary[d] # <<>>

(***************************************************************************)
(* Claims about the change detector (SpecDetect).                          *)
(***************************************************************************)
\* the dates that have a row in the snapshot file
SnapshotDates(file) == {file.rows[i][1] : i \in 1..Len(file.rows)}

MaxOf(S) == CHOOSE x \in S : \A y \in S : y <= x

\* the article has a row for the date
HasRow(file, d, k) == \E i \in 1..Len(file.rows) : file.rows[i][1] = d /\ file.rows[i][2] = k

\* the like_count of the article's last row for the date
LikeCountOn(file, d, k) ==
    LET i == MaxOf({j \in 1..Len(file.rows) : file.rows[j][1] = d /\ file.rows[j][2] = k})
    IN  ParseLikeCount(file.rows[i][3])

C31_TargetsAndMissingRows ==
    (det.done /\ ~det.is_none) =>
        LET latest   == MaxOf(SnapshotDates(articles_csv))
            previous == MaxOf(SnapshotDates(articles_csv) \ {latest})
        IN  \A k \in Keys :
              /\ ~HasRow(articles_csv, latest, k) => k \notin Range(det.changed)
              /\ (HasRow(articles_csv, latest, k) /\ ~HasRow(articles_csv, previous, k)) =>
                    (k \in Range(det.changed) <=> LikeCountOn(articles_csv, latest, k) > 0)

\* dates 1 to 3: article a has no row on date 2 and is at 1 on dates 1 and
\* 3, article b has a row on date 2 only: the targets are a alone
C31_Witness ==
    /\ det.done
    /\ SnapshotDates(articles_csv) = 1..3
    /\ HasRow(articles_csv, 1, "a") /\ LikeCountOn(articles_csv, 1, "a") = 1
    /\ ~HasRow(articles_csv, 2, "a")
    /\ HasRow(articles_csv, 3, "a") /\ LikeCountOn(articles_csv, 3, "a") = 1
    /\ HasRow(articles_csv, 2, "b") /\ ~HasRow(articles_csv, 3, "b")
    /\ det.changed = <<"a">>

(***************************************************************************)
(* Claims about the like-collector runs (SpecLikes).                       *)
(***************************************************************************)
\* C1: whatever the runs, the endpoint and the outcome of loading the store,
\* likes.csv never holds two rows with the same (note_key, like_user_id).
C1_NoDuplicateLikes ==
    \A i, j \in 1..Len(likes_csv.rows) : likes_csv.rows[i] = likes_csv.rows[j] => i = j

\* the article keys that have a row on the most recent snapshot date
KeysOfLatest(file) ==
    {file.rows[i][2] : i \in {j \in 1..Len(file.rows) :
                                 file.rows[j][1] = MaxOf(SnapshotDates(file))}}

\* C6: a run that found snapshot data is in baseline mode iff the persisted
\* like-records store held zero records when the run started, and in baseline
\* mode its targets are exactly the article keys of the most recent snapshot
\* date.
C6_ModeSelection ==
    run.mode # "none" =>
        /\ run.mode = "baseline" <=> Len(likes_at_start.rows) = 0
        /\ run.mode = "baseline" =>
              /\ Range(run.targets) = KeysOfLatest(articles_csv)
              /\ Len(run.targets) = Cardinality(KeysOfLatest(articles_csv))

\* like history is non-empty and fewer than two snapshot dates exist, or no
\* snapshot date exists at all
InsufficientData ==
    \/ SnapshotDates(articles_csv) = {}
    \/ Len(likes_at_start.rows) > 0 /\ Cardinality(SnapshotDates(articles_csv)) < 2

\* C8: on insufficient data the run issues no page request, leaves likes.csv
\* unchanged and ends with a normal exit instead of collecting, as neither a
\* baseline nor an incremental collection.
C8_InsufficientDataSkips ==
    (run.pc # "idle" /\ InsufficientData) =>
        /\ run.pc = "exited"
        /\ run.outcome \in {"no_articles", "insufficient", "exception"}
        /\ run.requests = 0
        /\ likes_csv = likes_at_start
        /\ run.exit_code = 0

\* the sequence p is a prefix of the sequence q
IsPrefix(p, q) == Len(p) <= Len(q) /\ SubSeq(q, 1, Len(p)) = p

\* C13: the content of likes.csv before a run is a prefix of its content at
\* every point of the run and after it: the header it had and the rows it
\* held stay in place, unmodified and in the same order.
C13_AppendOnly ==
    /\ IsPrefix(likes_at_start.rows, likes_csv.rows)
    /\ likes_at_start.exists => likes_csv.exists
    /\ likes_at_start.header # "none" => likes_csv.header = likes_at_start.header

\* a run that started on a store holding rows has appended new rows after them
C13_Witness ==
    /\ run.pc = "exited" /\ run.outcome = "done"
    /\ Len(likes_at_start.rows) > 0
    /\ Len(likes_csv.rows) > Len(likes_at_start.rows)
    /\ run.mode = "incremental"

\* C14: a page fetch failure for one article never aborts the run: a run in
\* which the collection of a target ended on a failed page fetch still goes
\* through every target and ends by persisting all the new records gathered.
C14_FailureNeverAborts ==
    (run.pc = "exited" /\ run.failed # {}) =>
        /\ run.outcome = "done"
        /\ run.i = Len(run.targets) + 1
        /\ likes_csv.rows = likes_at_start.rows \o LikeRows(run.all_new_likes)

\* C17: an article whose collection ended early on a failed page fetch in one
\* run, and which the latest snapshot still lists, is among the targets of
\* the next run.
C17_ReattemptAfterFailure ==
    (run.pc \in {"collect", "exited"} /\ run.outcome # "exception" /\ run.sorted_dates # <<>>) =>
        \A k \in run.prev_failed :
            HasRow(articles_csv, run.sorted_dates[Len(run.sorted_dates)], k) =>
                k \in Range(run.targets)

\* the rows of `after` are the rows of `before` whose date differs from d, as
\* they were and in their order, followed by rows of date d only
FrameKept(before, after, d) ==
    LET kept == RowsNotOfDate(before, d) IN
    /\ IsPrefix(kept, after)
    /\ \A i \in (Len(kept) + 1)..Len(after) : after[i][1] = d

\* C19: an upsert for date D leaves every row of another date unchanged and
\* in the same relative order, after the header and before the new rows for
\* D, in articles.csv and in daily_summary.csv, on every run of any sequence
\* of runs.
C19_UpsertFrame ==
    [][(stats'.outcome = "saved" /\ <<articles_csv, summary_csv>>' # <<articles_csv, summary_csv>>) =>
          /\ articles_csv'.header # "none"
          /\ FrameKept(articles_csv.rows, articles_csv'.rows, stats'.today)
          /\ summary_csv'.header # "none"
          /\ FrameKept(summary_csv.rows, summary_csv'.rows, stats'.today)]_vars

\* day 2 was saved a second time with other rows while articles.csv held
\* rows of day 1, which are still ahead of the rows of day 2
C19_Witness ==
    /\ stats.outcome = "saved" /\ stats.today = 2 /\ stats.replaced
    /\ Len(articles_csv.rows) >= 2
    /\ articles_csv.rows[1][1] = 1
    /\ articles_csv.rows[Len(articles_csv.rows)][1] = 2
    /\ Len(summary_csv.rows) = 2 /\ summary_csv.rows[1][1] = 1

\* C20: whatever header the existing file has, and when there is no file,
\* each saving run leaves articles.csv and daily_summary.csv with the header
\* the current code expects, the rows of other dates carried forward as they
\* were, and the run's rows after them.
C20_SchemaMigration ==
    [][stats'.outcome = "saved" =>
          /\ articles_csv'.exists /\ articles_csv'.header = ArticlesHeader
          /\ FrameKept(articles_csv.rows, articles_csv'.rows, stats'.today)
          /\ summary_csv'.exists /\ summary_csv'.header = SummaryHeader
          /\ FrameKept(summary_csv.rows, summary_csv'.rows, stats'.today)]_vars

\* the rows of `before` whose date differs from d are all among `rows`
OtherDatesPresent(before, rows, d) ==
    \A i \in 1..Len(before) : before[i][1] # d => before[i] \in Range(rows)

\* C18: when the process has been terminated during a daily run, the rows
\* articles.csv and daily_summary.csv held for other dates before the run are
\* still present, and articles.csv holds either its complete content of before
\* the run or the complete new content.
C18_InterruptedUpsertSafe ==
    wr.pc = "killed" =>
        /\ OtherDatesPresent(wr.before.rows, articles_csv.rows, wr.today)
        /\ OtherDatesPresent(wr.summary_before.rows, summary_csv.rows, wr.today)
        /\ \/ articles_csv = wr.before
           \/ articles_csv = [exists |-> TRUE, header |-> ArticlesHeader,
                              rows |-> RowsNotOfDate(wr.before.rows, wr.today) \o wr.new_rows]

\* C16: after each successfully fetched non-empty page of a call whose first
\* page reported a total, the collection stops iff the number of distinct
\* records collected has reached that total or the page added no new distinct
\* record; otherwise the loop goes on and its next request is at the offset
\* of this one plus 50.
C16_TerminationRule ==
    [][(col.pc = "loop" /\ col'.last = "page" /\ col'.reported \in Nat
            /\ Len(col'.requests) = Len(col.requests) + 1) =>
          /\ col'.requests = Append(col.requests, col.start)
          /\ IF Cardinality(col'.seen_ids) >= col'.reported \/ col'.seen_ids = col.seen_ids
             THEN col'.pc = "exit" /\ col'.start = col.start
             ELSE col'.pc = "loop" /\ col'.start = col.start + 50]_vars

\* 101 records served 50 at a time: the loop went on after the pages at
\* offsets 0 and 50 and stopped after the page at offset 100, where the
\* count reached the reported total
C16_Witness ==
    /\ col.requests = <<0, 50, 100>>
    /\ col.last = "page"
    /\ col.reported = 101
    /\ Cardinality(col.seen_ids) = 101
    /\ col.pc = "exit"

RECURSIVE FirstNotIn(_, _)
\* the records of a sequence that are not in the set `index`, each at its
\* first occurrence only, in the order of the sequence
FirstNotIn(records, index) ==
    IF records = <<>> THEN <<>>
    ELSE IF Head(records) \in index THEN FirstNotIn(Tail(records), index)
    ELSE <<Head(records)>> \o FirstNotIn(Tail(records), index \cup {Head(records)})

\* C21: the rows a run has appended to likes.csv are exactly the collected
\* records whose (note_key, like_user_id) was not in the index loaded at the
\* start of the run, each once, in arrival order.
C21_AppendCompleteOrdered ==
    (run.pc = "exited" /\ run.outcome = "done") =>
        likes_csv.rows = likes_at_start.rows \o FirstNotIn(run.collected, run.loaded)

\* an incremental run over two targets dropped a collected record that the
\* loaded index held and appended new records of both targets
C21_Witness ==
    /\ run.pc = "exited" /\ run.outcome = "done"
    /\ Len(run.targets) = 2
    /\ \E i \in 1..Len(run.collected) : run.collected[i] \in run.loaded
    /\ \E i, j \in 1..Len(run.all_new_likes) : run.all_new_likes[i][1] # run.all_new_likes[j][1]
    /\ Len(likes_csv.rows) > Len(likes_at_start.rows)

\* C22: starting from an absent, empty or header-only likes.csv, after any
\* sequence of runs a likes.csv that holds rows has the header as its first
\* row and holds the header nowhere else.
C22_HeaderOnce ==
    likes_csv.rows # <<>> =>
        /\ likes_csv.header = LikesHeader
        /\ \A i \in 1..Len(likes_csv.rows) : likes_csv.rows[i][1] # LikesHeaderRow[1]

\* a run that found likes.csv existing and empty has written the header and
\* its rows
C22_Witness ==
    /\ run.pc = "exited" /\ run.outcome = "done"
    /\ likes_at_start = [exists |-> TRUE, header |-> "none", rows |-> <<>>]
    /\ likes_csv.rows # <<>>
    /\ likes_csv.header = LikesHeader

\* C23: loading the dedup index never fails the run: once the run has
\* reached load_existing_likes, no error has escaped from it (the run is not
\* ended by an exception with the mode still undecided), and a missing, empty
\* or header-only likes.csv has given the empty index.
C23_LoadNeverFails ==
    (run.pc # "idle" /\ run.sorted_dates # <<>>) =>
        /\ ~(run.outcome = "exception" /\ run.mode = "none")
        /\ likes_at_start.rows = <<>> => run.loaded = {}

\* articles.csv holds at least two snapshot dates and no article of the latest
\* date has a like_count greater than on the previous date (0 where it has no
\* row there)
NoIncrease(file) ==
    /\ Cardinality(SnapshotDates(file)) >= 2
    /\ LET latest   == MaxOf(SnapshotDates(file))
           previous == MaxOf(SnapshotDates(file) \ {latest})
       IN  \A k \in KeysOfLatest(file) :
               LikeCountOn(file, latest, k) <=
                   (IF HasRow(file, previous, k) THEN LikeCountOn(file, previous, k) ELSE 0)

\* C24: once the like store is populated, a run that has read a snapshot file
\* in which no latest-date article has a like_count greater than on the
\* previous date is in incremental mode with no target, issues no page
\* request and leaves likes.csv unchanged.
C24_NoChangeNoOp ==
    (run.pc # "idle" /\ run.sorted_dates # <<>> /\ likes_at_start.rows # <<>>
        /\ NoIncrease(articles_csv)) =>
        /\ run.pc = "exited"
        /\ run.mode = "incremental"
        /\ run.targets = <<>>
        /\ run.requests = 0
        /\ likes_csv = likes_at_start

\* C25: at every point of a call of fetch_all_likes_for_article the result
\* list holds no two records with the same liker id, and it is the list of
\* the records received, each at its first observation, in arrival order.
C25_PerRunDedup ==
    /\ \A i, j \in 1..Len(col.all_likes) : col.all_likes[i] = col.all_likes[j] => i = j
    /\ col.all_likes = FirstNotIn(col.observed, {})

\* the second page brought back the liker of the first page and a new one
C25_Witness ==
    /\ Len(col.requests) = 2
    /\ col.observed = <<1, 1, 2>>
    /\ col.all_likes = <<1, 2>>

\* C26: cache entries are never deleted: after a call of fetch_note_dates has
\* saved the cache, every key that had an entry in the persisted cache
\* document before the call still has one, whether or not the article was in
\* the call's list and whether or not the document could be read.
C26_EntriesNeverDeleted ==
    fnd.pc = "done" =>
        \A k \in Keys : fnd.before[k].present => cache[k].present

\* C28: a run never crashes: however it ends, an exception raised inside it
\* included, the process ends with exit status 0, and a run ended by an
\* exception raised before the persist step leaves likes.csv exactly as it was
\* before the run.
C28_NoCrash ==
    run.pc = "exited" =>
        /\ run.exit_code = 0
        /\ run.outcome = "exception" => likes_csv = likes_at_start

\* the first target's new likes were gathered, then an exception of the
\* second target's fetch ended the run
C28_Witness ==
    /\ run.pc = "exited" /\ run.outcome = "exception"
    /\ run.i = 2 /\ Len(run.targets) = 2
    /\ run.all_new_likes # <<>>
    /\ likes_csv = likes_at_start
    /\ run.exit_code = 0

\* C29: against any endpoint over a finite set of liker ids the call of
\* fetch_all_likes_for_article ends, and at every point the number of page
\* requests issued is at most the number of distinct records collected plus
\* one.
C29_Terminates ==
    /\ [](Len(col.requests) <= Cardinality(Range(col.all_likes)) + 1)
    /\ <>(col.pc \in {"done", "raised"})

\* against the arbitrary endpoint the call has returned after three requests
\* that brought two distinct records: the bound is reached
C29_Witness ==
    /\ ep.kind = "any"
    /\ col.pc = "done"
    /\ Len(col.requests) = 3
    /\ Cardinality(Range(col.all_likes)) = 2

\* C30: of two runs in succession on the same articles.csv against an
\* unchanged, deterministic remote, the second appends no row: likes.csv is
\* after the second run what it was after the first.
C30_RerunIdempotent ==
    (nruns = 2 /\ run.pc = "exited") =>
        /\ likes_csv = likes_at_start
        /\ run.all_new_likes = <<>>

\* C15: when the first page provides no total like count, the count-reached
\* condition does not end the loop, so a first page that contributed new
\* records is followed by another page request, and however the call then
\* ends, its result is marked truncated.
C15_UnknownTotal ==
    col.reported = NoLikeCount =>
        /\ (Len(col.requests) = 1 /\ col.all_likes # <<>>) => col.pc = "loop"
        /\ col.pc = "done" => col.warned

(***************************************************************************)
(* Claims about the metadata cache (SpecCache).                            *)
(***************************************************************************)
\* an entry is present, its fetched_at is a date, and fewer than 7 days lie
\* between that date and today
Usable(entry, today) ==
    /\ entry.present
    /\ entry.fetched_at \notin {EmptyStr, BadDate}
    /\ today - entry.fetched_at < 7

\* the note at index j of the list has been handled and its key occurs at no
\* earlier index
HandledFirst(j) ==
    /\ j \in 1..Len(fnd.articles)
    /\ j < fnd.i \/ (fnd.pc = "raised" /\ j = fnd.i)
    /\ \A h \in 1..(j - 1) : fnd.articles[h] # fnd.articles[j]

\* C11: a cache entry is used iff its fetched_at is present, parseable and
\* fewer than 7 days before today: for such an entry the cached timestamp is
\* served and no detail request is issued; for any other entry (absent, empty
\* or unparseable fetched_at, 7 days old or more) a detail request is issued.
C11_Staleness ==
    fnd.pc \in {"loop", "raised"} =>
        \A j \in 1..Len(fnd.articles) :
            HandledFirst(j) =>
                LET k == fnd.articles[j] IN
                IF Usable(cache[k], fnd.today)
                THEN k \notin Range(fnd.requests) /\ fnd.served[j] = cache[k].published_at
                ELSE k \in Range(fnd.requests)

\* on day 7, article a with an entry fetched on day 0 (exactly 7 days) was
\* requested again and article b with an entry fetched on day 1 (6 days) was
\* served from the cache
C11_Witness ==
    /\ fnd.today = 7
    /\ fnd.articles = <<"a", "b">>
    /\ cache["a"].fetched_at = 0 /\ cache["b"].fetched_at = 1
    /\ fnd.i = 3
    /\ fnd.requests = <<"a">>
    /\ fnd.served[2] = "t0"

\* the number of requests issued for the key
RequestsFor(k) == Cardinality({n \in 1..Len(fnd.requests) : fnd.requests[n] = k})

\* C27: in fetch_note_dates an article whose entry before the call is usable
\* as of today is served without a request and its entry is left unchanged;
\* an article whose entry is absent or stale gets one detail request and an
\* entry with fetched_at = today; every article handled has an entry usable
\* as of today, and after the batch the saved cache holds these entries.
C27_RefreshProtocol ==
    fnd.pc \in {"loop", "done"} =>
        /\ \A j \in 1..Len(fnd.articles) :
               HandledFirst(j) =>
                   LET k == fnd.articles[j] IN
                   /\ IF Usable(fnd.before[k], fnd.today)
                      THEN RequestsFor(k) = 0 /\ fnd.cache[k] = fnd.before[k]
                      ELSE /\ RequestsFor(k) = 1
                           /\ fnd.cache[k].present
                           /\ fnd.cache[k].fetched_at = fnd.today
                   /\ Usable(fnd.cache[k], fnd.today)
        /\ fnd.pc = "done" =>
               /\ cache = fnd.cache
               /\ \A k \in Range(fnd.articles) : Usable(cache[k], fnd.today)

\* the batch is over: a, whose entry of day 1 was usable on day 7, kept it and
\* b, which had no entry, was requested and has an entry of day 7
C27_Witness ==
    /\ fnd.pc = "done"
    /\ fnd.today = 7
    /\ fnd.articles = <<"a", "b">>
    /\ fnd.before["a"] = Entry("t0", 1) /\ cache["a"] = Entry("t0", 1)
    /\ ~fnd.before["b"].present
    /\ fnd.requests = <<"b">>
    /\ cache["b"].fetched_at = 7

\* this step issues a detail request for the key
DetailRequested(k) ==
    /\ Len(fnd'.requests) = Len(fnd.requests) + 1
    /\ fnd'.requests[Len(fnd'.requests)] = k

\* C32: a failed metadata refresh is cached: when the detail request for an
\* article fails, its cache entry is replaced by one with empty timestamps
\* and fetched_at = today, whatever it held before, and no detail request is
\* made for an article fewer than 7 days after a failed one.
C32_FailedRefreshCached ==
    [][\A k \in Keys :
          DetailRequested(k) =>
              /\ \A d \in fnd.failed[k] : fnd.today - d >= StaleDays
              /\ (fnd'.pc = "loop" /\ fnd'.failed[k] = {fnd.today}) =>
                     fnd'.cache[k] = Entry("", fnd.today)]_vars

====
